---- MODULE Spec2Model ----
(***************************************************************************)
(* Model of Security_Assignment.py: eleven classical ciphers behind a      *)
(* text menu.  A text is a sequence of one-character strings; every cipher *)
(* function is an operator computed the way the Python code computes it,   *)
(* and every menu branch is an action that reads a mode, a key and a text  *)
(* and stores what the called function returned, printed or raised.        *)
(***************************************************************************)
EXTENDS Integers, Sequences, FiniteSets, TLC

VARIABLES choice, mode, key, text, result, printed, raised, shared_rnd

vars == <<choice, mode, key, text, result, printed, raised, shared_rnd>>

(***************************************************************************)
(* Bounds of the model.                                                    *)
(***************************************************************************)
MaxRailLen == 6
MaxRails == 4
MaxColLen == 4
MaxKeyLen == 3
MaxRouteDim == 3
MaxRouteLen == 5
MaxLinLen == 2
MaxLinKey == 30
MaxHillLen == 3
MaxPlayLen == 3
MaxDisLen == 4
MaxDisKeyLen == 2
MaxEntropy == 1

(***************************************************************************)
(* Characters: the printable ASCII range, code 32 (space) to 126.  The     *)
(* grave accent (code 96) cannot be written in a string here and is named  *)
(* "GRAVE".                                                                *)
(***************************************************************************)
Ascii ==
  << " ", "!", "\"", "#", "$", "%", "&", "'", "(", ")", "*", "+", ",", "-", ".", "/",
     "0", "1", "2", "3", "4", "5", "6", "7", "8", "9", ":", ";", "<", "=", ">", "?",
     "@", "A", "B", "C", "D", "E", "F", "G", "H", "I", "J", "K", "L", "M", "N", "O",
     "P", "Q", "R", "S", "T", "U", "V", "W", "X", "Y", "Z", "[", "\\", "]", "^", "_",
     "GRAVE", "a", "b", "c", "d", "e", "f", "g", "h", "i", "j", "k", "l", "m", "n", "o",
     "p", "q", "r", "s", "t", "u", "v", "w", "x", "y", "z", "{", "|", "}", "~" >>

Chars == {Ascii[i] : i \in 1..Len(Ascii)}

OrdTable == [c \in Chars |-> 31 + (CHOOSE i \in 1..Len(Ascii) : Ascii[i] = c)]

ord(c) == OrdTable[c]

chr(n) == Ascii[n - 31]

\* str.upper() and str.lower() on one ASCII character
upper_char(c) == IF ord(c) >= ord("a") /\ ord(c) <= ord("z") THEN chr(ord(c) - 32) ELSE c

lower_char(c) == IF ord(c) >= ord("A") /\ ord(c) <= ord("Z") THEN chr(ord(c) + 32) ELSE c

upper(s) == [i \in 1..Len(s) |-> upper_char(s[i])]

lower(s) == [i \in 1..Len(s) |-> lower_char(s[i])]

\* str.isalpha() on one ASCII character
isalpha(c) == \/ (ord(c) >= ord("A") /\ ord(c) <= ord("Z"))
              \/ (ord(c) >= ord("a") /\ ord(c) <= ord("z"))

\* "".join(c for c in s if c.isalpha())
letters_only(s) == SelectSeq(s, isalpha)

\* s.ljust(total, fill): pads on the right, never truncates
ljust(s, total, fill) ==
  IF Len(s) >= total THEN s ELSE s \o [i \in 1..(total - Len(s)) |-> fill]

\* s.rstrip(ch)
RECURSIVE rstrip(_, _)
rstrip(s, ch) ==
  IF Len(s) > 0 /\ s[Len(s)] = ch THEN rstrip(SubSeq(s, 1, Len(s) - 1), ch) ELSE s

\* all sequences over S of length lo..hi
SeqsOf(S, lo, hi) == UNION {[1..n -> S] : n \in lo..hi}

\* concatenation of a sequence of sequences ("".join)
RECURSIVE join(_)
join(ss) == IF Len(ss) = 0 THEN <<>> ELSE Head(ss) \o join(Tail(ss))

(***************************************************************************)
(* mod_inv: brute-force inverse of a modulo m; 0 stands for None.          *)
(***************************************************************************)
mod_inv(a, m) ==
  LET a1 == a % m
      xs == {x \in 1..(m - 1) : (a1 * x) % m = 1}
  IN IF xs = {} THEN 0 ELSE CHOOSE x \in xs : \A y \in xs : x <= y

(***************************************************************************)
(* Rail-Fence.                                                             *)
(***************************************************************************)
\* a bounce test that turns one rail too late at the bottom
bounce_late(rail, num_rails) == rail = 0 \/ rail = num_rails

\* the bounce test made after each step of the zigzag
bounce(rail, num_rails) == rail = 0 \/ rail = num_rails - 1

\* the rail visited at each of n steps, starting on `rail` going `direction`
RECURSIVE zigzag(_, _, _, _)
zigzag(n, num_rails, rail, direction) ==
  IF n = 0 THEN <<>>
  ELSE LET r2 == rail + direction
           d2 == IF bounce(r2, num_rails) THEN -direction ELSE direction
       IN <<rail>> \o zigzag(n - 1, num_rails, r2, d2)

\* Python list index: a negative index counts from the end
py_index(i, n) == IF i < 0 THEN i + n ELSE i

\* rails[rail] += char raises IndexError when rail is outside the list
rail_fence_encrypt_raises(plaintext, num_rails) ==
  /\ num_rails > 1
  /\ LET pattern == zigzag(Len(plaintext), num_rails, 0, 1)
     IN \E i \in 1..Len(pattern) : py_index(pattern[i], num_rails) \notin 0..(num_rails - 1)

rail_fence_encrypt(plaintext, num_rails) ==
  IF num_rails <= 1 THEN plaintext
  ELSE LET pattern == zigzag(Len(plaintext), num_rails, 0, 1)
           onrail(r) == {i \in 1..Len(plaintext) : py_index(pattern[i], num_rails) = r}
           RECURSIVE pick(_, _)
           pick(r, i) == IF i > Len(plaintext) THEN <<>>
                         ELSE (IF i \in onrail(r) THEN <<plaintext[i]>> ELSE <<>>)
                              \o pick(r, i + 1)
       IN join([r \in 1..num_rails |-> pick(r - 1, 1)])

\* rails[r][counter[r]] raises when r is no rail or the rail is exhausted
rail_fence_decrypt_raises(ciphertext, num_rails) ==
  /\ num_rails > 1
  /\ LET pattern == zigzag(Len(ciphertext), num_rails, 0, 1)
     IN \E i \in 1..Len(pattern) : pattern[i] \notin 0..(num_rails - 1)

rail_fence_decrypt(ciphertext, num_rails) ==
  IF num_rails <= 1 THEN ciphertext
  ELSE LET n == Len(ciphertext)
           pattern == zigzag(n, num_rails, 0, 1)
           \* characters handed to the rails before rail r
           start(r) == Cardinality({i \in 1..n : pattern[i] \in 0..(r - 1)})
           \* counter[r] when position i is rebuilt
           seen(i) == Cardinality({j \in 1..(i - 1) : pattern[j] = pattern[i]})
       IN [i \in 1..n |-> ciphertext[start(pattern[i]) + seen(i) + 1]]

(***************************************************************************)
(* Columnar transposition.  Columns are numbered from 1 here (Python: 0).  *)
(***************************************************************************)
\* position of column c in sorted(enumerate(key), key=lambda x: (x[1], x[0]))
col_rank(k, c) ==
  1 + Cardinality({d \in 1..Len(k) :
                     \/ ord(k[d]) < ord(k[c])
                     \/ (ord(k[d]) = ord(k[c]) /\ d < c)})

\* order: the columns in the order they are read
key_order(k) == [j \in 1..Len(k) |-> CHOOSE c \in 1..Len(k) : col_rank(k, c) = j]

\* a row count that rounds down instead of up
columnar_num_rows_floor(n, num_cols) == n \div num_cols

\* num_rows = (len(plaintext) + num_cols - 1) // num_cols
columnar_num_rows(n, num_cols) == (n + num_cols - 1) \div num_cols

\* len(key) = 0 makes the row count a division by zero
columnar_raises(t, k) == Len(k) = 0

columnar_transposition_encrypt(plaintext, k) ==
  LET num_cols == Len(k)
      num_rows == columnar_num_rows(Len(plaintext), num_cols)
      total == num_rows * num_cols
      padded == ljust(plaintext, total, "X")
      order == key_order(k)
  IN [p \in 1..total |->
        LET j == ((p - 1) \div num_rows) + 1
            r == ((p - 1) % num_rows) + 1
        IN padded[(r - 1) * num_cols + order[j]]]

columnar_transposition_decrypt(ciphertext, k) ==
  LET num_cols == Len(k)
      num_rows == Len(ciphertext) \div num_cols
      matrix == [q \in 1..(num_rows * num_cols) |->
                   LET r == ((q - 1) \div num_cols) + 1
                       c == ((q - 1) % num_cols) + 1
                   IN ciphertext[(col_rank(k, c) - 1) * num_rows + r]]
  IN rstrip(matrix, "X")

(***************************************************************************)
(* Double transposition: two columnar passes.                              *)
(***************************************************************************)
double_raises(t, key1, key2) == columnar_raises(t, key1) \/ columnar_raises(t, key2)

double_transposition_encrypt(plaintext, key1, key2) ==
  LET first_pass == columnar_transposition_encrypt(plaintext, key1)
  IN columnar_transposition_encrypt(first_pass, key2)

double_transposition_decrypt(ciphertext, key1, key2) ==
  LET first_pass == columnar_transposition_decrypt(ciphertext, key2)
  IN columnar_transposition_decrypt(first_pass, key1)

(***************************************************************************)
(* Route (spiral).  Cells are <<row, column>>, numbered from 0 as in the   *)
(* code.                                                                   *)
(***************************************************************************)
\* the cells in the order the while loop visits them
RECURSIVE spiral(_, _, _, _)
spiral(top, bottom, left, right) ==
  IF ~(top <= bottom /\ left <= right) THEN <<>>
  ELSE LET across == [i \in 1..(right - left + 1) |-> <<top, left + i - 1>>]
           top2 == top + 1
           down == [i \in 1..(bottom - top2 + 1) |-> <<top2 + i - 1, right>>]
           right2 == right - 1
           back == IF top2 <= bottom
                   THEN [i \in 1..(right2 - left + 1) |-> <<bottom, right2 - i + 1>>]
                   ELSE <<>>
           bottom2 == IF top2 <= bottom THEN bottom - 1 ELSE bottom
           up == IF left <= right2
                 THEN [i \in 1..(bottom2 - top2 + 1) |-> <<bottom2 - i + 1, left>>]
                 ELSE <<>>
           left2 == IF left <= right2 THEN left + 1 ELSE left
       IN across \o down \o back \o up \o spiral(top2, bottom2, left2, right2)

route_cipher_encrypt(plaintext, rows, cols) ==
  LET total == rows * cols
      padded == ljust(plaintext, total, "X")
      \* matrix[r][c] = padded[r * cols + c]
      cells == spiral(0, rows - 1, 0, cols - 1)
  IN [i \in 1..Len(cells) |-> padded[cells[i][1] * cols + cells[i][2] + 1]]

\* ciphertext[index] raises IndexError when the ciphertext is shorter than the walk
route_cipher_decrypt_raises(ciphertext, rows, cols) ==
  Len(ciphertext) < Len(spiral(0, rows - 1, 0, cols - 1))

route_cipher_decrypt(ciphertext, rows, cols) ==
  LET cells == spiral(0, rows - 1, 0, cols - 1)
      \* the walk step that wrote cell <<r, c>> last
      step(r, c) == CHOOSE i \in 1..Len(cells) :
                      /\ cells[i] = <<r, c>>
                      /\ \A j \in 1..Len(cells) : cells[j] = <<r, c>> => j <= i
  IN [q \in 1..(rows * cols) |->
        ciphertext[step((q - 1) \div cols, (q - 1) % cols)]]

(***************************************************************************)
(* Additive, Multiplicative and Affine.  A function that prints is two     *)
(* operators: what it returns, and (_out) what it prints.                  *)
(***************************************************************************)
abs(a) == IF a < 0 THEN -a ELSE a

\* math.gcd
RECURSIVE gcd(_, _)
gcd(a, b) == IF b = 0 THEN abs(a) ELSE gcd(abs(b), abs(a) % abs(b))

\* 'A' <= char <= 'Z'
is_upper(c) == ord(c) >= ord("A") /\ ord(c) <= ord("Z")

additive_encrypt(t, k) ==
  LET u == upper(t)
  IN [i \in 1..Len(u) |->
        IF is_upper(u[i])
        THEN chr(((ord(u[i]) - ord("A") + k) % 26) + ord("A"))
        ELSE u[i]]

\* a decrypt that shifts the same way as encrypt
additive_decrypt_same_way(t, k) == additive_encrypt(t, k)

additive_decrypt(t, k) == additive_encrypt(t, -k)

multiplicative_encrypt(t, k) ==
  IF gcd(k, 26) # 1 THEN <<>>
  ELSE LET u == upper(t)
       IN [i \in 1..Len(u) |->
             IF is_upper(u[i])
             THEN chr((((ord(u[i]) - ord("A")) * k) % 26) + ord("A"))
             ELSE u[i]]

multiplicative_encrypt_out(t, k) ==
  IF gcd(k, 26) # 1 THEN <<"Error: The key must be coprime with 26.">> ELSE <<>>

multiplicative_decrypt(t, k) ==
  IF gcd(k, 26) # 1 THEN <<>>
  ELSE LET inverse == mod_inv(k, 26)
           u == upper(t)
       IN IF inverse = 0 THEN <<>>
          ELSE [i \in 1..Len(u) |->
                  IF is_upper(u[i])
                  THEN chr((((ord(u[i]) - ord("A")) * inverse) % 26) + ord("A"))
                  ELSE u[i]]

multiplicative_decrypt_out(t, k) ==
  IF gcd(k, 26) # 1 THEN <<"Error: The key must be coprime with 26.">>
  ELSE IF mod_inv(k, 26) = 0 THEN <<"Error: No modular inverse for this key!">>
  ELSE <<>>

affine_encrypt(t, a, b) ==
  IF gcd(a, 26) # 1 THEN <<>>
  ELSE LET u == upper(t)
       IN [i \in 1..Len(u) |->
             IF is_upper(u[i])
             THEN chr(((a * (ord(u[i]) - 65) + b) % 26) + 65)
             ELSE u[i]]

affine_encrypt_out(t, a, b) ==
  IF gcd(a, 26) # 1 THEN <<"Error: Key 'a' must be coprime with 26.">> ELSE <<>>

affine_decrypt(t, a, b) ==
  IF gcd(a, 26) # 1 THEN <<>>
  ELSE LET inverse == mod_inv(a, 26)
           u == upper(t)
       IN IF inverse = 0 THEN <<>>
          ELSE [i \in 1..Len(u) |->
                  IF is_upper(u[i])
                  THEN chr(((inverse * ((ord(u[i]) - 65) - b)) % 26) + 65)
                  ELSE u[i]]

affine_decrypt_out(t, a, b) ==
  IF gcd(a, 26) # 1 THEN <<"Error: Key 'a' must be coprime with 26.">>
  ELSE IF mod_inv(a, 26) = 0 THEN <<"Error: No modular inverse found for 'a'.">>
  ELSE <<>>

(***************************************************************************)
(* Hill, 2x2 key matrix <<<<m00, m01>>, <<m10, m11>>>>.                    *)
(***************************************************************************)
\* the matrix times the vector <<v1, v2>>, modulo 26
hill_multiply(m, v1, v2) ==
  << (m[1][1] * v1 + m[1][2] * v2) % 26, (m[2][1] * v1 + m[2][2] * v2) % 26 >>

\* the pairs of text through the matrix m, as letters
hill_pairs(t, m) ==
  [i \in 1..Len(t) |->
     LET first == IF i % 2 = 1 THEN i ELSE i - 1
         nums == hill_multiply(m, ord(t[first]) - 65, ord(t[first + 1]) - 65)
     IN chr(nums[IF i % 2 = 1 THEN 1 ELSE 2] + 65)]

hill_encrypt(plaintext, key_matrix) ==
  LET letters == letters_only(upper(plaintext))
      t == IF Len(letters) % 2 # 0 THEN letters \o <<"X">> ELSE letters
  IN hill_pairs(t, key_matrix)

hill_det(key_matrix) ==
  (key_matrix[1][1] * key_matrix[2][2] - key_matrix[1][2] * key_matrix[2][1]) % 26

\* an inverse matrix whose off-diagonal entries keep their sign
hill_inv_matrix_unsigned(key_matrix, inv_det) ==
  << << (key_matrix[2][2] * inv_det) % 26, (key_matrix[1][2] * inv_det) % 26 >>,
     << (key_matrix[2][1] * inv_det) % 26, (key_matrix[1][1] * inv_det) % 26 >> >>

hill_inv_matrix(key_matrix, inv_det) ==
  << << (key_matrix[2][2] * inv_det) % 26, ((-key_matrix[1][2]) * inv_det) % 26 >>,
     << ((-key_matrix[2][1]) * inv_det) % 26, (key_matrix[1][1] * inv_det) % 26 >> >>

\* pair[1] raises IndexError on the last pair of an odd number of letters
hill_decrypt_raises(ciphertext, key_matrix) ==
  /\ mod_inv(hill_det(key_matrix), 26) # 0
  /\ Len(letters_only(upper(ciphertext))) % 2 # 0

hill_decrypt(ciphertext, key_matrix) ==
  LET inv_det == mod_inv(hill_det(key_matrix), 26)
  IN IF inv_det = 0 THEN <<>>
     ELSE hill_pairs(letters_only(upper(ciphertext)), hill_inv_matrix(key_matrix, inv_det))

hill_decrypt_out(ciphertext, key_matrix) ==
  IF mod_inv(hill_det(key_matrix), 26) = 0
  THEN <<"Error: Key matrix is not invertible modulo 26!">>
  ELSE <<>>

(***************************************************************************)
(* Playfair.  The 5x5 table is kept as its 25 letters in row order; rows   *)
(* and columns are numbered from 0 as in the code.                         *)
(***************************************************************************)
\* s.lower().replace('j', 'i')
fold(s) == [i \in 1..Len(s) |-> IF lower_char(s[i]) = "j" THEN "i" ELSE lower_char(s[i])]

\* the letters of s not in seen, each once, in order of first appearance
RECURSIVE first_seen(_, _)
first_seen(s, seen) ==
  IF Len(s) = 0 THEN <<>>
  ELSE IF isalpha(Head(s)) /\ Head(s) \notin seen
       THEN <<Head(s)>> \o first_seen(Tail(s), seen \cup {Head(s)})
       ELSE first_seen(Tail(s), seen)

\* "abcdefghiklmnopqrstuvwxyz"
TableAlphabet ==
  << "a", "b", "c", "d", "e", "f", "g", "h", "i", "k", "l", "m", "n",
     "o", "p", "q", "r", "s", "t", "u", "v", "w", "x", "y", "z" >>

generate_key_table(k) ==
  LET head == first_seen(fold(k), {})
  IN head \o SelectSeq(TableAlphabet, LAMBDA c : \A i \in 1..Len(head) : head[i] # c)

\* table[row][col]
table_at(table, row, col) == table[row * 5 + col + 1]

\* <<row, col>> of the letter in the table
find_position(letter, table) ==
  LET l == fold(<<letter>>)[1]
      i == CHOOSE j \in 1..Len(table) : table[j] = l
  IN <<(i - 1) \div 5, (i - 1) % 5>>

\* the digraphs of the normalized plaintext, from position i on
RECURSIVE playfair_digraphs(_, _)
playfair_digraphs(p, i) ==
  IF i > Len(p) THEN <<>>
  ELSE IF i + 1 <= Len(p)
       THEN IF p[i] = p[i + 1]
            THEN << <<p[i], "x">> >> \o playfair_digraphs(p, i + 1)
            ELSE << <<p[i], p[i + 1]>> >> \o playfair_digraphs(p, i + 2)
       ELSE << <<p[i], "x">> >>

\* an encryption whose rectangle rule takes the two corners in the wrong order
playfair_encrypt_pair_swapped(a, b, table) ==
  LET p1 == find_position(a, table)
      p2 == find_position(b, table)
  IN IF p1[1] = p2[1]
     THEN <<table_at(table, p1[1], (p1[2] + 1) % 5), table_at(table, p2[1], (p2[2] + 1) % 5)>>
     ELSE IF p1[2] = p2[2]
     THEN <<table_at(table, (p1[1] + 1) % 5, p1[2]), table_at(table, (p2[1] + 1) % 5, p2[2])>>
     ELSE <<table_at(table, p2[1], p1[2]), table_at(table, p1[1], p2[2])>>

\* the two letters a digraph encrypts to
playfair_encrypt_pair(a, b, table) ==
  LET p1 == find_position(a, table)
      p2 == find_position(b, table)
  IN IF p1[1] = p2[1]
     THEN <<table_at(table, p1[1], (p1[2] + 1) % 5), table_at(table, p2[1], (p2[2] + 1) % 5)>>
     ELSE IF p1[2] = p2[2]
     THEN <<table_at(table, (p1[1] + 1) % 5, p1[2]), table_at(table, (p2[1] + 1) % 5, p2[2])>>
     ELSE <<table_at(table, p1[1], p2[2]), table_at(table, p2[1], p1[2])>>

\* a decryption whose column rule moves down, as encryption does
playfair_decrypt_pair_down(a, b, table) ==
  LET p1 == find_position(a, table)
      p2 == find_position(b, table)
  IN IF p1[1] = p2[1]
     THEN <<table_at(table, p1[1], (p1[2] - 1) % 5), table_at(table, p2[1], (p2[2] - 1) % 5)>>
     ELSE IF p1[2] = p2[2]
     THEN <<table_at(table, (p1[1] + 1) % 5, p1[2]), table_at(table, (p2[1] + 1) % 5, p2[2])>>
     ELSE <<table_at(table, p1[1], p2[2]), table_at(table, p2[1], p1[2])>>

\* the two letters a digraph decrypts to
playfair_decrypt_pair(a, b, table) ==
  LET p1 == find_position(a, table)
      p2 == find_position(b, table)
  IN IF p1[1] = p2[1]
     THEN <<table_at(table, p1[1], (p1[2] - 1) % 5), table_at(table, p2[1], (p2[2] - 1) % 5)>>
     ELSE IF p1[2] = p2[2]
     THEN <<table_at(table, (p1[1] - 1) % 5, p1[2]), table_at(table, (p2[1] - 1) % 5, p2[2])>>
     ELSE <<table_at(table, p1[1], p2[2]), table_at(table, p2[1], p1[2])>>

playfair_encrypt(plaintext, k) ==
  LET table == generate_key_table(k)
      p == letters_only(fold(plaintext))
      digraphs == playfair_digraphs(p, 1)
  IN upper(join([d \in 1..Len(digraphs) |->
                   playfair_encrypt_pair(digraphs[d][1], digraphs[d][2], table)]))

\* pair[1] raises IndexError on the last pair of an odd number of letters
playfair_decrypt_raises(ciphertext, k) == Len(letters_only(fold(ciphertext))) % 2 # 0

playfair_decrypt(ciphertext, k) ==
  LET table == generate_key_table(k)
      c == letters_only(fold(ciphertext))
  IN upper(join([d \in 1..(Len(c) \div 2) |->
                   playfair_decrypt_pair(c[2 * d - 1], c[2 * d], table)]))

(***************************************************************************)
(* Myszkowski transposition.  Columns are numbered from 1 here (Python: 0).*)
(***************************************************************************)
\* sorted(groups.keys()): the distinct key letters in ascending order
myszkowski_letters(k) ==
  LET S == {k[i] : i \in 1..Len(k)}
  IN [g \in 1..Cardinality(S) |->
        CHOOSE c \in S : Cardinality({d \in S : ord(d) < ord(c)}) = g - 1]

\* groups[letter]: the columns under that letter, left to right
myszkowski_cols(k, letter) ==
  SelectSeq([i \in 1..Len(k) |-> i], LAMBDA i : k[i] = letter)

\* a group always read column by column, as Columnar reads
myszkowski_group_by_column(padded, num_rows, num_cols, cols) ==
  [p \in 1..(num_rows * Len(cols)) |->
     LET j == ((p - 1) \div num_rows) + 1
         r == ((p - 1) % num_rows) + 1
     IN padded[(r - 1) * num_cols + cols[j]]]

\* what one letter group adds to the result
myszkowski_group(padded, num_rows, num_cols, cols) ==
  IF Len(cols) = 1
  THEN [r \in 1..num_rows |-> padded[(r - 1) * num_cols + cols[1]]]
  ELSE [p \in 1..(num_rows * Len(cols)) |->
          LET r == ((p - 1) \div Len(cols)) + 1
              j == ((p - 1) % Len(cols)) + 1
          IN padded[(r - 1) * num_cols + cols[j]]]

\* len(key) = 0 makes the row count a division by zero
myszkowski_raises(t, k) == Len(k) = 0

myszkowski_encrypt(plaintext, k) ==
  LET num_cols == Len(k)
      num_rows == (Len(plaintext) + num_cols - 1) \div num_cols
      total == num_rows * num_cols
      padded == ljust(plaintext, total, "X")
      letters == myszkowski_letters(k)
  IN join([g \in 1..Len(letters) |->
             myszkowski_group(padded, num_rows, num_cols, myszkowski_cols(k, letters[g]))])

\* group_cipher: the slice of the ciphertext each letter group takes, in letter order
RECURSIVE myszkowski_slices(_, _, _, _)
myszkowski_slices(cipher_remainder, k, letters, num_rows) ==
  IF Len(letters) = 0 THEN <<>>
  ELSE LET cols == myszkowski_cols(k, Head(letters))
           length == IF Len(cols) = 1 THEN num_rows ELSE num_rows * Len(cols)
           cut == IF length < Len(cipher_remainder) THEN length ELSE Len(cipher_remainder)
       IN <<SubSeq(cipher_remainder, 1, cut)>>
          \o myszkowski_slices(SubSeq(cipher_remainder, cut + 1, Len(cipher_remainder)),
                               k, Tail(letters), num_rows)

myszkowski_decrypt(ciphertext, k) ==
  LET num_cols == Len(k)
      num_rows == Len(ciphertext) \div num_cols
      letters == myszkowski_letters(k)
      group_cipher == myszkowski_slices(ciphertext, k, letters, num_rows)
      \* matrix[r][c], written by the group of the letter over column c
      cell(r, c) ==
        LET g == CHOOSE h \in 1..Len(letters) : letters[h] = k[c]
            cols == myszkowski_cols(k, letters[g])
            j == CHOOSE i \in 1..Len(cols) : cols[i] = c
        IN IF Len(cols) = 1
           THEN group_cipher[g][r]
           ELSE SubSeq(group_cipher[g], (r - 1) * Len(cols) + 1, r * Len(cols))[j]
      matrix == [q \in 1..(num_rows * num_cols) |->
                   cell(((q - 1) \div num_cols) + 1, ((q - 1) % num_cols) + 1)]
  IN rstrip(matrix, "X")

(***************************************************************************)
(* Disruptive transposition.  random.Random(seed) is a generator whose     *)
(* whole state is fixed by the seed and which advances by one step per     *)
(* draw; the recurrence below stands for the library's generator (it is    *)
(* not the Mersenne Twister).  shared is the state of the random module's  *)
(* own generator, which the code does not use.  Indices are from 0.        *)
(***************************************************************************)
\* seed = sum(ord(c) for c in key)
RECURSIVE key_seed(_)
key_seed(k) == IF Len(k) = 0 THEN 0 ELSE ord(Head(k)) + key_seed(Tail(k))

\* a generator that is the module's shared one instead of a fresh seeded one
new_generator_shared(seed, shared) == shared

\* rnd = random.Random(seed)
new_generator(seed, shared) == seed % 64

\* the generator after one draw
rnd_step(g) == (5 * g + 3) % 64

\* the value of that draw below n
rnd_below(g, n) == rnd_step(g) % n

\* x with the entries at indices i and j exchanged
swap(x, i, j) == [x EXCEPT ![i + 1] = x[j + 1], ![j + 1] = x[i + 1]]

\* rnd.shuffle(x): for i from len(x)-1 down to 1, exchange x[i] and x[randbelow(i+1)]
RECURSIVE shuffle(_, _, _)
shuffle(x, i, g) ==
  IF i < 1 THEN x
  ELSE shuffle(swap(x, i, rnd_below(g, i + 1)), i - 1, rnd_step(g))

\* perm, for a text of n characters
disruptive_perm(n, k, shared) ==
  shuffle([i \in 1..n |-> i - 1], n - 1, new_generator(key_seed(k), shared))

disruptive_transposition_encrypt(t, k, shared) ==
  LET perm == disruptive_perm(Len(t), k, shared)
  IN [q \in 1..Len(t) |-> t[CHOOSE i \in 1..Len(t) : perm[i] = q - 1]]

disruptive_transposition_decrypt(ciphertext, k, shared) ==
  LET n == Len(ciphertext)
      perm == disruptive_perm(n, k, shared)
      inv_perm == [p \in 1..n |-> (CHOOSE i \in 1..n : perm[i] = p - 1) - 1]
  IN [j \in 1..n |-> ciphertext[CHOOSE i \in 1..n : inv_perm[i] = j - 1]]

(***************************************************************************)
(* The menu: one action per cipher function the menu can call.             *)
(***************************************************************************)
Init ==
  /\ choice = "menu"
  /\ mode = "-"
  /\ key = <<>>
  /\ text = <<>>
  /\ result = <<>>
  /\ printed = <<>>
  /\ raised = "none"
  \* the random module's own generator, seeded from system entropy at import
  /\ shared_rnd \in 0..MaxEntropy

\* one pass of the menu loop: the call returned `ret`, printed `out`, or raised `exc`
Call(c, m, k, t, ret, out, exc) ==
  /\ choice' = c
  /\ mode' = m
  /\ key' = k
  /\ text' = t
  /\ result' = IF exc = "none" THEN ret ELSE <<>>
  /\ printed' = out
  /\ raised' = exc
  /\ UNCHANGED shared_rnd

\* the prompt after an operation: back to the top of the menu loop, where the
\* choice, mode, key and text are read afresh; an uncaught exception ends the program
ReturnToMenu ==
  /\ choice # "menu"
  /\ raised = "none"
  /\ choice' = "menu"
  /\ mode' = "-"
  /\ key' = <<>>
  /\ text' = <<>>
  /\ result' = <<>>
  /\ printed' = <<>>
  /\ raised' = "none"
  /\ UNCHANGED shared_rnd

RailAlphabet == {"a", "b", "c"}

RailFenceEncrypt ==
  /\ choice = "menu"
  /\ \E n \in 1..MaxRails, t \in SeqsOf(RailAlphabet, 0, MaxRailLen) :
    IF rail_fence_encrypt_raises(t, n)
    THEN Call("1", "E", <<n>>, t, <<>>, <<>>, "IndexError")
    ELSE Call("1", "E", <<n>>, t, rail_fence_encrypt(t, n), <<>>, "none")

RailFenceDecrypt ==
  /\ choice = "menu"
  /\ \E n \in 1..MaxRails, t \in SeqsOf(RailAlphabet, 0, MaxRailLen) :
    IF rail_fence_decrypt_raises(t, n)
    THEN Call("1", "D", <<n>>, t, <<>>, <<>>, "KeyError")
    ELSE Call("1", "D", <<n>>, t, rail_fence_decrypt(t, n), <<>>, "none")

NextRail == RailFenceEncrypt \/ RailFenceDecrypt \/ ReturnToMenu

SpecRail == Init /\ [][NextRail]_vars

(***************************************************************************)
(* C3: Rail-Fence round trip.  After any rail_fence_encrypt call (any text *)
(* up to MaxRailLen, the empty text included, any num_rails >= 1) nothing  *)
(* was raised, the result has the length of the text (no padding),         *)
(* rail_fence_decrypt of the result with the same num_rails is the text,   *)
(* and every value the rail index takes, in encrypt and in decrypt (the    *)
(* value left after the last character included), is in 0..num_rails-1.    *)
(***************************************************************************)
RailFenceRoundTrip ==
  choice = "1" =>
    /\ raised = "none"
    /\ key[1] > 1 =>
         \A n \in {Len(text), Len(text) + 1} :
           \A i \in 1..n : zigzag(n, key[1], 0, 1)[i] \in 0..(key[1] - 1)
    /\ mode = "E" =>
         /\ Len(result) = Len(text)
         /\ ~rail_fence_decrypt_raises(result, key[1])
         /\ rail_fence_decrypt(result, key[1]) = text

\* a three-rail encryption of a six-character text that moved characters
RailFenceWitness ==
  /\ choice = "1" /\ mode = "E" /\ raised = "none"
  /\ key[1] = 3 /\ Len(text) = 6 /\ result # text
  /\ rail_fence_decrypt(result, 3) = text

(***************************************************************************)
(* Menu branches 3 and 4: Columnar and Double transposition.               *)
(***************************************************************************)
HELLOWORLD == <<"H", "E", "L", "L", "O", "W", "O", "R", "L", "D">>

KEY == <<"K", "E", "Y">>

ColTexts == SeqsOf({"A", "B", "X"}, 0, MaxColLen) \cup {HELLOWORLD}

ColKeys == SeqsOf({"A", "B", "K"}, 0, MaxKeyLen) \cup {KEY}

ColumnarEncrypt ==
  /\ choice = "menu"
  /\ \E k \in ColKeys, t \in ColTexts :
       IF columnar_raises(t, k)
       THEN Call("3", "E", k, t, <<>>, <<>>, "ZeroDivisionError")
       ELSE Call("3", "E", k, t, columnar_transposition_encrypt(t, k), <<>>, "none")

ColumnarDecrypt ==
  /\ choice = "menu"
  /\ \E k \in ColKeys, t \in ColTexts :
       IF columnar_raises(t, k)
       THEN Call("3", "D", k, t, <<>>, <<>>, "ZeroDivisionError")
       ELSE Call("3", "D", k, t, columnar_transposition_decrypt(t, k), <<>>, "none")

NextColumnar == ColumnarEncrypt \/ ColumnarDecrypt \/ ReturnToMenu

SpecColumnar == Init /\ [][NextColumnar]_vars

DoubleKeys == SeqsOf({"A", "B"}, 0, 2) \cup {KEY}

DoubleEncrypt ==
  /\ choice = "menu"
  /\ \E key1 \in DoubleKeys, key2 \in DoubleKeys, t \in ColTexts :
       IF double_raises(t, key1, key2)
       THEN Call("4", "E", <<key1, key2>>, t, <<>>, <<>>, "ZeroDivisionError")
       ELSE Call("4", "E", <<key1, key2>>, t,
                 double_transposition_encrypt(t, key1, key2), <<>>, "none")

DoubleDecrypt ==
  /\ choice = "menu"
  /\ \E key1 \in DoubleKeys, key2 \in DoubleKeys, t \in ColTexts :
       IF double_raises(t, key1, key2)
       THEN Call("4", "D", <<key1, key2>>, t, <<>>, <<>>, "ZeroDivisionError")
       ELSE Call("4", "D", <<key1, key2>>, t,
                 double_transposition_decrypt(t, key1, key2), <<>>, "none")

NextDouble == DoubleEncrypt \/ DoubleDecrypt \/ ReturnToMenu

SpecDouble == Init /\ [][NextDouble]_vars

\* the text does not end in the filler 'X'
NoTrailingX(t) == Len(t) = 0 \/ t[Len(t)] # "X"

(***************************************************************************)
(* C1: Columnar round trip.  After columnar_transposition_encrypt of a     *)
(* text that does not end in 'X' under a non-empty key (repeated letters   *)
(* allowed, text length a multiple of the key length or not), the result   *)
(* has whole rows, and columnar_transposition_decrypt of it with the same  *)
(* key is the text; "HELLOWORLD" under "KEY" gives "EORXHLODLWLX".         *)
(***************************************************************************)
ColumnarRoundTrip ==
  (choice = "3" /\ mode = "E" /\ Len(key) > 0 /\ NoTrailingX(text)) =>
    /\ raised = "none"
    /\ Len(result) % Len(key) = 0
    /\ Len(result) >= Len(text)
    /\ columnar_transposition_decrypt(result, key) = text
    /\ (text = HELLOWORLD /\ key = KEY) =>
          result = <<"E", "O", "R", "X", "H", "L", "O", "D", "L", "W", "L", "X">>

\* a padded encryption under a key with a repeated letter
ColumnarWitness ==
  /\ choice = "3" /\ mode = "E" /\ raised = "none"
  /\ key = <<"B", "A", "B">> /\ text = <<"A", "B", "X", "A">>
  /\ Len(result) = 6
  /\ columnar_transposition_decrypt(result, key) = text

(***************************************************************************)
(* C2: Double Columnar round trip, as claimed: after                       *)
(* double_transposition_encrypt of a text that does not end in 'X' under   *)
(* two non-empty keys, double_transposition_decrypt of the result with the *)
(* same keys is the text.                                                  *)
(***************************************************************************)
DoubleRoundTrip ==
  (choice = "4" /\ mode = "E" /\ Len(key[1]) > 0 /\ Len(key[2]) > 0
     /\ NoTrailingX(text)) =>
    /\ raised = "none"
    /\ double_transposition_decrypt(result, key[1], key[2]) = text

(***************************************************************************)
(* C9: Columnar decode rejects malformed input, as claimed: a call of      *)
(* columnar_transposition_decrypt with a non-empty key and a ciphertext    *)
(* whose length is not a multiple of the key length ends in a              *)
(* MalformedInput error and returns no string.                             *)
(***************************************************************************)
ColumnarDecryptRejectsMalformed ==
  (choice = "3" /\ mode = "D" /\ Len(key) > 0 /\ Len(text) % Len(key) # 0) =>
    raised = "MalformedInput"

(***************************************************************************)
(* Menu branch 2: Route (spiral).                                          *)
(***************************************************************************)
RouteTexts == SeqsOf({"A", "B", "X"}, 0, MaxRouteLen)

RouteEncrypt ==
  /\ choice = "menu"
  /\ \E rows \in 1..MaxRouteDim, cols \in 1..MaxRouteDim, t \in RouteTexts :
       Call("2", "E", <<rows, cols>>, t, route_cipher_encrypt(t, rows, cols), <<>>, "none")

RouteDecrypt ==
  /\ choice = "menu"
  /\ \E rows \in 1..MaxRouteDim, cols \in 1..MaxRouteDim, t \in RouteTexts :
       IF route_cipher_decrypt_raises(t, rows, cols)
       THEN Call("2", "D", <<rows, cols>>, t, <<>>, <<>>, "IndexError")
       ELSE Call("2", "D", <<rows, cols>>, t, route_cipher_decrypt(t, rows, cols), <<>>, "none")

NextRoute == RouteEncrypt \/ RouteDecrypt \/ ReturnToMenu

SpecRoute == Init /\ [][NextRoute]_vars

(***************************************************************************)
(* C4: Route round trip, as claimed: after route_cipher_encrypt of any     *)
(* text with rows >= 1 and cols >= 1 the walk has visited each of the      *)
(* rows*cols cells exactly once, the result has rows*cols characters, and  *)
(* route_cipher_decrypt of the result with the same rows and cols is the   *)
(* text followed only by 'X' filler, so no character of the text is lost.  *)
(***************************************************************************)
RouteRoundTrip ==
  (choice = "2" /\ mode = "E") =>
    LET rows == key[1]
        cols == key[2]
        cells == spiral(0, rows - 1, 0, cols - 1)
    IN /\ raised = "none"
       /\ Len(cells) = rows * cols
       /\ \A r \in 0..(rows - 1), c \in 0..(cols - 1) :
            Cardinality({i \in 1..Len(cells) : cells[i] = <<r, c>>}) = 1
       /\ Len(result) = rows * cols
       /\ ~route_cipher_decrypt_raises(result, rows, cols)
       /\ LET back == route_cipher_decrypt(result, rows, cols)
          IN /\ Len(back) >= Len(text)
             /\ SubSeq(back, 1, Len(text)) = text
             /\ \A i \in (Len(text) + 1)..Len(back) : back[i] = "X"

(***************************************************************************)
(* Menu branches 7, 8 and 9: Additive, Multiplicative, Affine.             *)
(***************************************************************************)
HELLO == <<"H", "E", "L", "L", "O">>

LinTexts == {<<c>> : c \in Chars} \cup SeqsOf({"A", "z", "Z", " "}, 0, MaxLinLen) \cup {HELLO}

LinKeys == (-MaxLinKey)..MaxLinKey

AffineB == {-27, -1, 0, 5, 26, 30}

AdditiveEncrypt ==
  /\ choice = "menu"
  /\ \E k \in LinKeys, t \in LinTexts :
       Call("7", "E", <<k>>, t, additive_encrypt(t, k), <<>>, "none")

AdditiveDecrypt ==
  /\ choice = "menu"
  /\ \E k \in LinKeys, t \in LinTexts :
       Call("7", "D", <<k>>, t, additive_decrypt(t, k), <<>>, "none")

MultiplicativeEncrypt ==
  /\ choice = "menu"
  /\ \E k \in LinKeys, t \in LinTexts :
       Call("8", "E", <<k>>, t, multiplicative_encrypt(t, k),
            multiplicative_encrypt_out(t, k), "none")

MultiplicativeDecrypt ==
  /\ choice = "menu"
  /\ \E k \in LinKeys, t \in LinTexts :
       Call("8", "D", <<k>>, t, multiplicative_decrypt(t, k),
            multiplicative_decrypt_out(t, k), "none")

AffineEncrypt ==
  /\ choice = "menu"
  /\ \E a \in LinKeys, b \in AffineB, t \in LinTexts :
       Call("9", "E", <<a, b>>, t, affine_encrypt(t, a, b), affine_encrypt_out(t, a, b), "none")

AffineDecrypt ==
  /\ choice = "menu"
  /\ \E a \in LinKeys, b \in AffineB, t \in LinTexts :
       Call("9", "D", <<a, b>>, t, affine_decrypt(t, a, b), affine_decrypt_out(t, a, b), "none")

NextLinear ==
  \/ AdditiveEncrypt \/ AdditiveDecrypt
  \/ MultiplicativeEncrypt \/ MultiplicativeDecrypt
  \/ AffineEncrypt \/ AffineDecrypt
  \/ ReturnToMenu

SpecLinear == Init /\ [][NextLinear]_vars

(***************************************************************************)
(* C5: linear substitution round trip.  After an Additive encrypt with any *)
(* integer key, a Multiplicative encrypt with a key coprime to 26 or an    *)
(* Affine encrypt with a coprime to 26 and any b (keys negative or >= 26   *)
(* included), nothing was printed or raised, the result has a letter       *)
(* A..Z wherever the text has a letter and the text's own character        *)
(* wherever it has a non-letter, and the matching decrypt of the result    *)
(* with the same key is the uppercased text; additive_encrypt("HELLO", 3)  *)
(* is "KHOOR".                                                             *)
(***************************************************************************)
LinearRoundTrip ==
  (choice \in {"7", "8", "9"} /\ mode = "E" /\ (choice = "7" \/ gcd(key[1], 26) = 1)) =>
    /\ raised = "none"
    /\ printed = <<>>
    /\ Len(result) = Len(text)
    /\ \A i \in 1..Len(text) :
         IF isalpha(text[i]) THEN is_upper(result[i]) ELSE result[i] = text[i]
    /\ choice = "7" =>
         /\ additive_decrypt(result, key[1]) = upper(text)
         /\ (text = HELLO /\ key[1] = 3) => result = <<"K", "H", "O", "O", "R">>
    /\ choice = "8" =>
         /\ multiplicative_decrypt(result, key[1]) = upper(text)
         /\ multiplicative_decrypt_out(result, key[1]) = <<>>
    /\ choice = "9" =>
         /\ affine_decrypt(result, key[1], key[2]) = upper(text)
         /\ affine_decrypt_out(result, key[1], key[2]) = <<>>

\* an Affine encryption with a negative multiplier and a large negative offset
LinearWitness ==
  /\ choice = "9" /\ mode = "E" /\ raised = "none"
  /\ key = <<-3, -27>> /\ text = <<"z", " ">>
  /\ result # upper(text)
  /\ affine_decrypt(result, -3, -27) = <<"Z", " ">>

(***************************************************************************)
(* C8: an invalid key is a distinguishable failure, as claimed: a          *)
(* Multiplicative or Affine call whose key (a) is not coprime to 26 ends   *)
(* in an InvalidKey error outcome, so it differs from the successful empty *)
(* result of the empty text, and it prints nothing.                        *)
(***************************************************************************)
InvalidKeyIsDistinguishable ==
  (choice \in {"8", "9"} /\ gcd(key[1], 26) # 1) =>
    /\ raised = "InvalidKey"
    /\ <<result, raised>> # <<<<>>, "none">>
    /\ printed = <<>>

(***************************************************************************)
(* Menu branch 11: Hill.                                                   *)
(***************************************************************************)
HELP == <<"H", "E", "L", "P">>

HIAT == <<"H", "I", "A", "T">>

HillTexts == SeqsOf({"A", "h", "Z", " "}, 0, MaxHillLen) \cup {HELP, HIAT}

HillEntries == {-1, 2, 3, 5, 27}

HillKeys == {<< <<a, b>>, <<c, d>> >> : a \in HillEntries, b \in HillEntries,
                                        c \in HillEntries, d \in HillEntries}

HillEncrypt ==
  /\ choice = "menu"
  /\ \E m \in HillKeys, t \in HillTexts :
       Call("11", "E", m, t, hill_encrypt(t, m), <<>>, "none")

HillDecrypt ==
  /\ choice = "menu"
  /\ \E m \in HillKeys, t \in HillTexts :
       IF hill_decrypt_raises(t, m)
       THEN Call("11", "D", m, t, <<>>, <<>>, "IndexError")
       ELSE Call("11", "D", m, t, hill_decrypt(t, m), hill_decrypt_out(t, m), "none")

NextHill == HillEncrypt \/ HillDecrypt \/ ReturnToMenu

SpecHill == Init /\ [][NextHill]_vars

(***************************************************************************)
(* C6: Hill round trip.  After hill_encrypt of any text under a key matrix *)
(* whose determinant is coprime to 26 (entries negative or above 25        *)
(* included), hill_decrypt of the result with the same matrix raises and   *)
(* prints nothing and returns the uppercase letters of the text, followed  *)
(* by one 'X' exactly when their number is odd; with [[3,3],[2,5]] "HELP"  *)
(* encrypts to "HIAT" and "HIAT" decrypts to "HELP".                       *)
(***************************************************************************)
HillRoundTrip ==
  (choice = "11" /\ gcd(hill_det(key), 26) = 1) =>
    /\ mode = "E" =>
         LET letters == letters_only(upper(text))
         IN /\ raised = "none"
            /\ ~hill_decrypt_raises(result, key)
            /\ hill_decrypt_out(result, key) = <<>>
            /\ hill_decrypt(result, key) =
                 IF Len(letters) % 2 = 1 THEN letters \o <<"X">> ELSE letters
            /\ (key = << <<3, 3>>, <<2, 5>> >> /\ text = HELP) => result = HIAT
    /\ (mode = "D" /\ key = << <<3, 3>>, <<2, 5>> >> /\ text = HIAT) =>
         (raised = "none" /\ result = HELP)

\* an odd number of letters under a matrix with a negative and a large entry
HillWitness ==
  /\ choice = "11" /\ mode = "E" /\ raised = "none"
  /\ key = << <<-1, 2>>, <<27, 5>> >> /\ text = <<"h", " ", "Z">> 
  /\ gcd(hill_det(key), 26) = 1
  /\ hill_decrypt(result, key) = <<"H", "Z">>

(***************************************************************************)
(* Menu branch 10: Playfair.                                               *)
(***************************************************************************)
MONARCHY == <<"M", "O", "N", "A", "R", "C", "H", "Y">>

ELSUPM == <<"E", "L", "S", "U", "P", "M">>

CFSUPM == <<"C", "F", "S", "U", "P", "M">>

PlayKeys == {MONARCHY, <<>>, <<"J", "a", "z", "z">>, <<"k", "e", " ", "y">>}

PlayTexts == SeqsOf({"h", "L", "x", "j", " "}, 0, MaxPlayLen) \cup {HELLO, ELSUPM, CFSUPM}

PlayfairEncrypt ==
  /\ choice = "menu"
  /\ \E k \in PlayKeys, t \in PlayTexts :
       Call("10", "E", k, t, playfair_encrypt(t, k), <<>>, "none")

PlayfairDecrypt ==
  /\ choice = "menu"
  /\ \E k \in PlayKeys, t \in PlayTexts :
       IF playfair_decrypt_raises(t, k)
       THEN Call("10", "D", k, t, <<>>, <<>>, "IndexError")
       ELSE Call("10", "D", k, t, playfair_decrypt(t, k), <<>>, "none")

NextPlayfair == PlayfairEncrypt \/ PlayfairDecrypt \/ ReturnToMenu

SpecPlayfair == Init /\ [][NextPlayfair]_vars

(***************************************************************************)
(* C7, as claimed: with key "MONARCHY", playfair_encrypt of "HELLO" forms  *)
(* the digraphs he, lx, lo and returns "ELSUPM", and playfair_decrypt of   *)
(* "ELSUPM" returns "HELXLO".                                              *)
(***************************************************************************)
PlayfairScenarioAsClaimed ==
  (choice = "10" /\ key = MONARCHY) =>
    /\ (mode = "E" /\ text = HELLO) =>
         /\ playfair_digraphs(letters_only(fold(text)), 1) =
              << <<"h", "e">>, <<"l", "x">>, <<"l", "o">> >>
         /\ result = ELSUPM
    /\ (mode = "D" /\ text = ELSUPM) => result = <<"H", "E", "L", "X", "L", "O">>

(***************************************************************************)
(* C7, amended: with key "MONARCHY", playfair_encrypt of "HELLO" forms the *)
(* digraphs he, lx, lo and returns "CFSUPM" (h and e are the corners of a  *)
(* rectangle whose other corners are c and f); playfair_decrypt of         *)
(* "CFSUPM" returns "HELXLO", and playfair_decrypt of "ELSUPM" returns     *)
(* "CELXLO".                                                               *)
(***************************************************************************)
PlayfairScenario ==
  (choice = "10" /\ key = MONARCHY) =>
    /\ (mode = "E" /\ text = HELLO) =>
         /\ raised = "none"
         /\ playfair_digraphs(letters_only(fold(text)), 1) =
              << <<"h", "e">>, <<"l", "x">>, <<"l", "o">> >>
         /\ result = CFSUPM
    /\ (mode = "D" /\ text = CFSUPM) =>
         (raised = "none" /\ result = <<"H", "E", "L", "X", "L", "O">>)
    /\ (mode = "D" /\ text = ELSUPM) =>
         (raised = "none" /\ result = <<"C", "E", "L", "X", "L", "O">>)

\* the worked encryption has been made
PlayfairWitness ==
  /\ choice = "10" /\ mode = "E" /\ raised = "none"
  /\ key = MONARCHY /\ text = HELLO
  /\ Len(result) = 6
  /\ playfair_decrypt(result, key) = <<"H", "E", "L", "X", "L", "O">>

(***************************************************************************)
(* Menu branch 6: Disruptive transposition.                                *)
(***************************************************************************)
DisTexts == SeqsOf({"a", "b", "c"}, 0, MaxDisLen)

DisKeys == SeqsOf({"a", "b", "k"}, 0, MaxDisKeyLen)

DisruptiveEncrypt ==
  /\ choice = "menu"
  /\ \E k \in DisKeys, t \in DisTexts :
       Call("6", "E", k, t, disruptive_transposition_encrypt(t, k, shared_rnd), <<>>, "none")

DisruptiveDecrypt ==
  /\ choice = "menu"
  /\ \E k \in DisKeys, t \in DisTexts :
       Call("6", "D", k, t, disruptive_transposition_decrypt(t, k, shared_rnd), <<>>, "none")

NextDisruptive == DisruptiveEncrypt \/ DisruptiveDecrypt \/ ReturnToMenu

SpecDisruptive == Init /\ [][NextDisruptive]_vars

(***************************************************************************)
(* C10: Disruptive round trip and determinism.  After                      *)
(* disruptive_transposition_encrypt of any text under any key, the         *)
(* permutation drawn for that key and length is a permutation of           *)
(* 0..len-1, the result has the text's length, the result is the same      *)
(* whatever the state of the shared generator (the permutation depends on  *)
(* the key's character sum and the length alone), and                      *)
(* disruptive_transposition_decrypt of the result with the same key is the *)
(* text.                                                                   *)
(***************************************************************************)
DisruptiveRoundTrip ==
  (choice = "6" /\ mode = "E") =>
    LET n == Len(text)
        perm == disruptive_perm(n, key, shared_rnd)
    IN /\ raised = "none"
       /\ Len(perm) = n
       /\ {perm[i] : i \in 1..n} = 0..(n - 1)
       /\ Len(result) = n
       /\ \A i \in 1..n : result[perm[i] + 1] = text[i]
       /\ \A s \in 0..MaxEntropy :
            /\ disruptive_perm(n, key, s) = perm
            /\ disruptive_transposition_encrypt(text, key, s) = result
            /\ disruptive_transposition_decrypt(result, key, s) = text

\* an encryption that moved characters and is undone by decrypt
DisruptiveWitness ==
  /\ choice = "6" /\ mode = "E" /\ raised = "none"
  /\ Len(text) = 4 /\ Len(key) = 2 /\ result # text
  /\ disruptive_transposition_decrypt(result, key, shared_rnd) = text

(***************************************************************************)
(* Menu branch 5: Myszkowski transposition.                                *)
(***************************************************************************)
MyszkowskiEncrypt ==
  /\ choice = "menu"
  /\ \E k \in ColKeys, t \in ColTexts :
       IF myszkowski_raises(t, k)
       THEN Call("5", "E", k, t, <<>>, <<>>, "ZeroDivisionError")
       ELSE Call("5", "E", k, t, myszkowski_encrypt(t, k), <<>>, "none")

MyszkowskiDecrypt ==
  /\ choice = "menu"
  /\ \E k \in ColKeys, t \in ColTexts :
       IF myszkowski_raises(t, k)
       THEN Call("5", "D", k, t, <<>>, <<>>, "ZeroDivisionError")
       ELSE Call("5", "D", k, t, myszkowski_decrypt(t, k), <<>>, "none")

NextMyszkowski == MyszkowskiEncrypt \/ MyszkowskiDecrypt \/ ReturnToMenu

SpecMyszkowski == Init /\ [][NextMyszkowski]_vars

(***************************************************************************)
(* C11: Myszkowski round trip.  After myszkowski_encrypt of a text that    *)
(* does not end in 'X' under a non-empty key (repeated letters allowed),   *)
(* the result holds every cell of the padded grid at the place the letter  *)
(* groups give it: the groups in ascending letter order, a group of k      *)
(* columns taking rows*k places, a single column top to bottom and a       *)
(* k-column group row by row across its columns left to right; and         *)
(* myszkowski_decrypt of the result with the same key is the text.         *)
(***************************************************************************)
MyszkowskiRoundTrip ==
  (choice = "5" /\ mode = "E" /\ Len(key) > 0 /\ NoTrailingX(text)) =>
    LET num_cols == Len(key)
        num_rows == Len(result) \div num_cols
        padded == ljust(text, Len(result), "X")
        \* columns under a letter smaller than the one over column c
        before(c) == Cardinality({d \in 1..num_cols : ord(key[d]) < ord(key[c])})
        \* columns under the same letter as column c
        same(c) == {d \in 1..num_cols : key[d] = key[c]}
        \* how many of them are at or left of c
        nth(c) == Cardinality({d \in same(c) : d <= c})
        place(r, c) == num_rows * before(c) + (r - 1) * Cardinality(same(c)) + nth(c)
    IN /\ raised = "none"
       /\ Len(result) % num_cols = 0
       /\ Len(result) >= Len(text)
       /\ Len(result) < Len(text) + num_cols
       /\ \A r \in 1..num_rows, c \in 1..num_cols :
            result[place(r, c)] = padded[(r - 1) * num_cols + c]
       /\ myszkowski_decrypt(result, key) = text

\* two rows under a key whose repeated letter spans two columns
MyszkowskiWitness ==
  /\ choice = "5" /\ mode = "E" /\ raised = "none"
  /\ key = <<"B", "A", "B">> /\ text = <<"A", "B", "X", "A">>
  /\ result # columnar_transposition_encrypt(text, key)
  /\ myszkowski_decrypt(result, key) = text

(***************************************************************************)
(* C12: Playfair round trip up to separators.  After playfair_encrypt of   *)
(* any text under any key, the digraphs formed from the normalized text    *)
(* (letters only, lowercase, j folded to i) are pairs of letters other     *)
(* than j, a pair of equal letters being 'xx' only; the result has two     *)
(* letters per digraph, and playfair_decrypt of the result with the same   *)
(* key raises nothing and is the uppercase concatenation of those          *)
(* digraphs, every inserted 'x' still in place.                            *)
(***************************************************************************)
PlayfairRoundTrip ==
  (choice = "10" /\ mode = "E") =>
    LET p == letters_only(fold(text))
        digraphs == playfair_digraphs(p, 1)
    IN /\ raised = "none"
       /\ \A i \in 1..Len(p) : isalpha(p[i]) /\ p[i] = lower_char(p[i]) /\ p[i] # "j"
       /\ 2 * Len(digraphs) >= Len(p)
       /\ Len(digraphs) <= Len(p)
       /\ \A d \in 1..Len(digraphs) :
            /\ Len(digraphs[d]) = 2
            /\ digraphs[d][1] = digraphs[d][2] => digraphs[d] = <<"x", "x">>
       /\ Len(result) = 2 * Len(digraphs)
       /\ ~playfair_decrypt_raises(result, key)
       /\ playfair_decrypt(result, key) = upper(join(digraphs))

\* a text of two x, which forms the digraph 'xx' twice
PlayfairRoundTripWitness ==
  /\ choice = "10" /\ mode = "E" /\ raised = "none"
  /\ key = MONARCHY /\ text = <<"x", "x">>
  /\ playfair_digraphs(letters_only(fold(text)), 1) = << <<"x", "x">>, <<"x", "x">> >>
  /\ Len(result) = 4
  /\ playfair_decrypt(result, key) = <<"X", "X", "X", "X">>

====
